---------------------------- MODULE Spec2Model ----------------------------
(***************************************************************************)
(* A model of polyline-ffi (src/src/lib.rs): the foreign-function boundary *)
(* around the polyline crate.  The state is the process memory (blocks     *)
(* owned by the native allocator and blocks owned by the foreign caller),  *)
(* the C strings handed out, the array descriptors the caller holds, and a *)
(* record of the most recent call.  Every exported function and every      *)
(* conversion impl of lib.rs is one operator; the four extern "C"          *)
(* functions and the conversions are the actions.                          *)
(*                                                                         *)
(* Undefined behaviour (a null slice, a double free, a deallocation with   *)
(* another layout) is recorded as an event, and the step that raises it    *)
(* either aborts the process or carries on.                                *)
(***************************************************************************)
EXTENDS Integers, Sequences, FiniteSets, TLC

VARIABLES
    mem,        \* address -> block: the native allocator's and the caller's blocks
    cstrings,   \* address -> C string block (CString::into_raw / from_raw)
    held,       \* the InternalArray descriptors the caller holds, in order of return
    ub,         \* the undefined-behaviour events raised so far
    status,     \* "running" | "aborted"
    extEncoder, \* which external encode function is linked (never changes)
    last        \* the most recent call: its arguments, result and events

vars == <<mem, cstrings, held, ub, status, extEncoder, last>>

---------------------------------------------------------------------------
(* Bounds of the model *)

MaxBlocks == 2      \* blocks the native allocator can hand out at once
MaxHeld == 2        \* descriptors the caller holds at once
MaxCallerBufs == 1  \* buffers the caller owns at once
MaxStrs == 1        \* C strings outstanding at once

---------------------------------------------------------------------------
(* Values *)

NULL == 0

\* f64 / f32 values: a number, or not-a-number.
F(n) == [nan |-> FALSE, v |-> n]
NAN == [nan |-> TRUE, v |-> 0]
is_nan(f) == f.nan

\* The floating-point types a LineString<T> can carry (T: CoordFloat).
FloatTypes == {"f32", "f64"}
SizeOf(T) == IF T = "f32" THEN 4 ELSE 8
AlignOf(T) == IF T = "f32" THEN 4 ELSE 8

\* The layout of a boxed slice of n elements of [T; 2].
SliceLayout(T, n) == [size |-> n * 2 * SizeOf(T), align |-> AlignOf(T)]

\* Addresses.  A zero-length boxed slice does not allocate: its address is
\* the dangling, well-aligned address of its element type.
NativeAddr == {16 * i : i \in 1..MaxBlocks}
CallerAddr == {4096 + 16 * i : i \in 1..MaxCallerBufs}
StrAddr == {8192 + 16 * i : i \in 1..MaxStrs}
Dangling(T) == AlignOf(T)

\* A block is live, with the layout it was allocated with and its contents,
\* or free.
FreeBlock == [st |-> "free", owner |-> "none", size |-> 0, align |-> 0, data |-> <<>>]

Live(m, A) == {a \in A : m[a].st = "live"}
Free(m, A) == {a \in A : m[a].st # "live"}

\* Coordinate arrays used as inputs: Vec<[f64; 2]>, each element <<x, y>>.
SampleLines ==
    { <<>>,
      << <<F(2), F(1)>>, <<F(4), F(3)>> >>,
      << <<F(4), F(3)>>, <<F(2), F(1)>> >>,
      << <<F(2), F(200)>> >>,
      << <<F(200), F(2)>> >> }

\* Byte strings a caller passes to decode (the bytes before the NUL).
SampleStrings ==
    { <<>>,
      <<75, 69>>,
      <<75, 69, 87, 81>>,
      <<75>>,
      <<195, 169>>,
      <<255, 75>> }

PrecisionInputs == {4, 5, 6, 7}

---------------------------------------------------------------------------
(* Option and Result *)

Some(x) == [some |-> TRUE, v |-> x]
None == [some |-> FALSE, v |-> 0]
Ok(x) == [ok |-> TRUE, v |-> x]
Err(x) == [ok |-> FALSE, v |-> x]

\* enum Precision, cast `as u32`
Precision_Five == 5
Precision_Six == 6

\* get_precision with a third arm that lets 7 through.
get_precision_upto7(input) ==
    IF input = 5 THEN Some(Precision_Five)
    ELSE IF input = 6 THEN Some(Precision_Six)
    ELSE IF input = 7 THEN Some(7)
    ELSE None

get_precision(input) ==
    IF input = 5 THEN Some(Precision_Five)
    ELSE IF input = 6 THEN Some(Precision_Six)
    ELSE None

---------------------------------------------------------------------------
(* The allocator *)

\* alloc: block a (not live) becomes a live block of the given layout.
Alloc(m, a, owner, layout, data) ==
    [m EXCEPT ![a] = [st |-> "live", owner |-> owner, size |-> layout.size,
                      align |-> layout.align, data |-> data]]

\* dealloc(ptr, layout): the block must be live and have been allocated with
\* this layout; anything else is undefined behaviour.
Dealloc(m, ptr, layout) ==
    IF ptr \notin DOMAIN m
    THEN [mem |-> m, ub |-> {"invalid_free"}]
    ELSE IF m[ptr].st # "live"
    THEN [mem |-> m, ub |-> {"double_free"}]
    ELSE [mem |-> [m EXCEPT ![ptr] = FreeBlock],
          ub |-> IF layout.size = m[ptr].size /\ layout.align = m[ptr].align
                 THEN {} ELSE {"layout_mismatch"}]

\* Box::into_raw(v.into_boxed_slice()) for v: Vec<[T; 2]>.  The allocator
\* picks address a; an empty slice allocates nothing.
BoxIntoRaw(m, a, owner, T, v) ==
    IF Len(v) = 0
    THEN [mem |-> m, ptr |-> Dangling(T)]
    ELSE [mem |-> Alloc(m, a, owner, SliceLayout(T, Len(v)), v), ptr |-> a]

\* drop(Box::from_raw(slice_from_raw_parts_mut(ptr.cast::<[f64; 2]>(), len))):
\* deallocates with the layout of len elements of [f64; 2]; a zero-sized box
\* deallocates nothing.
DropBoxFromRaw(m, ptr, len) ==
    IF SliceLayout("f64", len).size = 0
    THEN [mem |-> m, ub |-> {}]
    ELSE Dealloc(m, ptr, SliceLayout("f64", len))

---------------------------------------------------------------------------
(* InternalArray and its conversions *)

NullArray == [data |-> NULL, len |-> 0]

\* impl Drop for InternalArray, without the deallocation.
InternalArray_drop_leak(m, arr) == [mem |-> m, ub |-> {}]

\* impl Drop for InternalArray, without the null check.
InternalArray_drop_unguarded(m, arr) == DropBoxFromRaw(m, arr.data, arr.len)

\* impl Drop for InternalArray
InternalArray_drop(m, arr) ==
    IF arr.data = NULL
    THEN [mem |-> m, ub |-> {}]
    ELSE DropBoxFromRaw(m, arr.data, arr.len)

\* A LineString<T> is a sequence of coordinates [x, y].
Coord(x, y) == [x |-> x, y |-> y]

\* Vec<[T; 2]> -> LineString<T>  (v.into())
LineStringFromVec(v) == [i \in 1..Len(v) |-> Coord(v[i][1], v[i][2])]

\* sl.0.iter().map(|p| [p.x, p.y]).collect()
VecFromLineString(sl) == [i \in 1..Len(sl) |-> <<sl[i].x, sl[i].y>>]

\* impl From<Vec<[f64; 2]>> for InternalArray
InternalArrayFromVec(m, a, v) ==
    LET r == BoxIntoRaw(m, a, "native", "f64", v)
    IN  [mem |-> r.mem, arr |-> [data |-> r.ptr, len |-> Len(v)]]

\* impl<T: CoordFloat> From<LineString<T>> for InternalArray
InternalArrayFromLineString(m, a, T, sl) ==
    LET v == VecFromLineString(sl)
        r == BoxIntoRaw(m, a, "native", T, v)
    IN  [mem |-> r.mem, arr |-> [data |-> r.ptr, len |-> Len(v)]]

\* impl From<InternalArray> for LineString<f64>: the temporary Box is
\* dropped at the end of the let statement, and arr, which the function
\* owns, is dropped when the function returns.
LineStringFromInternalArray(m, arr) ==
    LET v == IF arr.len = 0 THEN <<>> ELSE m[arr.data].data
        r1 == DropBoxFromRaw(m, arr.data, arr.len)
        r2 == InternalArray_drop(r1.mem, arr)
    IN  [mem |-> r2.mem, ls |-> LineStringFromVec(v), ub |-> r1.ub \cup r2.ub,
         \* deallocations requested: by the temporary Box, then by arr's Drop
         frees |-> (IF arr.len = 0 THEN 0 ELSE 1)
                   + (IF arr.data = NULL \/ arr.len = 0 THEN 0 ELSE 1)]

---------------------------------------------------------------------------
(* Text *)

\* CStr::to_str: the bytes are valid UTF-8.
RECURSIVE Utf8ValidFrom(_, _)
Utf8ValidFrom(s, i) ==
    LET Cont(j, lo, hi) == j <= Len(s) /\ s[j] >= lo /\ s[j] <= hi
    IN  IF i > Len(s) THEN TRUE
        ELSE IF s[i] < 128 THEN Utf8ValidFrom(s, i + 1)
        ELSE IF s[i] >= 194 /\ s[i] <= 223
        THEN Cont(i + 1, 128, 191) /\ Utf8ValidFrom(s, i + 2)
        ELSE IF s[i] >= 224 /\ s[i] <= 239
        THEN /\ Cont(i + 1, IF s[i] = 224 THEN 160 ELSE 128,
                            IF s[i] = 237 THEN 159 ELSE 191)
             /\ Cont(i + 2, 128, 191)
             /\ Utf8ValidFrom(s, i + 3)
        ELSE IF s[i] >= 240 /\ s[i] <= 244
        THEN /\ Cont(i + 1, IF s[i] = 240 THEN 144 ELSE 128,
                            IF s[i] = 244 THEN 143 ELSE 191)
             /\ Cont(i + 2, 128, 191)
             /\ Cont(i + 3, 128, 191)
             /\ Utf8ValidFrom(s, i + 4)
        ELSE FALSE

CStr_to_str(bytes) == IF Utf8ValidFrom(bytes, 1) THEN Ok(bytes) ELSE Err(<<>>)

HasNul(bytes) == \E i \in 1..Len(bytes) : bytes[i] = 0

\* "Bad precision parameter supplied"
BadPrecisionMsg ==
    <<66, 97, 100, 32, 112, 114, 101, 99, 105, 115, 105, 111, 110, 32, 112, 97,
      114, 97, 109, 101, 116, 101, 114, 32, 115, 117, 112, 112, 108, 105, 101, 100>>

\* "Couldn't decode Polyline"
FallbackMsg ==
    <<67, 111, 117, 108, 100, 110, 39, 116, 32, 100, 101, 99, 111, 100, 101, 32,
      80, 111, 108, 121, 108, 105, 110, 101>>

\* "Longitude error: " and "Latitude error: "
LongitudeErrorPrefix ==
    <<76, 111, 110, 103, 105, 116, 117, 100, 101, 32, 101, 114, 114, 111, 114, 58, 32>>
LatitudeErrorPrefix ==
    <<76, 97, 116, 105, 116, 117, 100, 101, 32, 101, 114, 114, 111, 114, 58, 32>>

---------------------------------------------------------------------------
(* The polyline crate.  Its two functions are external to lib.rs; they are *)
(* stood for by pure functions that keep what the boundary relies on: the  *)
(* result is Ok or Err, it depends on every coordinate, on their order, on *)
(* which component is x and which is y, and on the precision.              *)

ExtEncoders == {"polyline", "nul"}

Factor(precision) == precision + 1

InRange(f, limit) == ~is_nan(f) /\ f.v <= limit /\ f.v >= 0 - limit

\* polyline::decode_polyline(text, precision): two characters of the
\* alphabet 63..126 per coordinate, latitude (y) first.
decode_polyline(text, precision) ==
    IF \/ \E i \in 1..Len(text) : text[i] < 63 \/ text[i] > 126
       \/ Len(text) % 2 = 1
    THEN Err(<<>>)
    ELSE Ok([k \in 1..(Len(text) \div 2) |->
                Coord(F((text[2 * k] - 63) \div Factor(precision)),
                      F((text[2 * k - 1] - 63) \div Factor(precision)))])

RECURSIVE EncodeFrom(_, _, _, _)
EncodeFrom(enc, ls, precision, i) ==
    IF i > Len(ls) THEN <<>>
    ELSE <<63 + ls[i].y.v * Factor(precision), 63 + ls[i].x.v * Factor(precision)>>
         \o (IF enc = "nul" THEN <<0>> ELSE <<>>)
         \o EncodeFrom(enc, ls, precision, i + 1)

\* polyline::encode_coordinates(coordinates, precision): the text, or the
\* message naming the first coordinate out of range.  The encoder "nul"
\* stands for an external function whose text holds a zero byte.
encode_coordinates(enc, ls, precision) ==
    LET bad == {i \in 1..Len(ls) : ~InRange(ls[i].x, 180) \/ ~InRange(ls[i].y, 90)}
        first == CHOOSE i \in bad : \A j \in bad : i <= j
    IN  IF bad = {} THEN Ok(EncodeFrom(enc, ls, precision, 1))
        ELSE IF ~InRange(ls[first].y, 90)
        THEN Err(LatitudeErrorPrefix \o <<48 + first>>)
        ELSE Err(LongitudeErrorPrefix \o <<48 + first>>)

---------------------------------------------------------------------------
(* Decode *)

NanVec == << <<NAN, NAN>> >>

\* arr_from_string with an empty array, not the sentinel, on a decode error.
arr_from_string_errempty(m, a, incoming, precision) ==
    IF get_precision(precision).some
    THEN LET res == decode_polyline(incoming, precision)
         IN  IF res.ok THEN InternalArrayFromLineString(m, a, "f64", res.v)
             ELSE InternalArrayFromVec(m, a, <<>>)
    ELSE InternalArrayFromVec(m, a, NanVec)

\* fn arr_from_string
arr_from_string(m, a, incoming, precision) ==
    IF get_precision(precision).some
    THEN LET res == decode_polyline(incoming, precision)
         IN  IF res.ok THEN InternalArrayFromLineString(m, a, "f64", res.v)
             ELSE InternalArrayFromVec(m, a, NanVec)
    ELSE InternalArrayFromVec(m, a, NanVec)

\* extern "C" fn decode_polyline_ffi; pl holds the bytes before the NUL.
decode_polyline_ffi(m, a, pl, precision) ==
    LET s == CStr_to_str(pl)
    IN  IF s.ok THEN arr_from_string(m, a, s.v, precision)
        ELSE InternalArrayFromVec(m, a, NanVec)

---------------------------------------------------------------------------
(* Encode *)

\* The ExternalArray descriptors a caller can pass: any prefix of a buffer
\* it owns, and the empty array at the null or at a dangling address.
ExternalArrays(m) ==
    UNION {{[data |-> c, len |-> n] : n \in 0..Len(m[c].data)} :
              c \in Live(m, CallerAddr)}
    \cup {[data |-> NULL, len |-> 0], [data |-> Dangling("f64"), len |-> 0]}


\* impl From<Vec<[f64; 2]>> for ExternalArray: how a buffer the native side
\* does not own comes to be; c is the address the caller's allocator picks.
ExternalArrayFromVec(m, c, v) ==
    LET r == BoxIntoRaw(m, c, "caller", "f64", v)
    IN  [mem |-> r.mem, arr |-> [data |-> r.ptr, len |-> Len(v)]]

\* slice::from_raw_parts(data, len): the address must be non-null and
\* aligned even when len is 0.
SliceFromRawParts(m, data, len) ==
    IF data = NULL THEN [v |-> <<>>, ub |-> {"null_slice"}]
    ELSE IF len = 0 THEN [v |-> <<>>, ub |-> {}]
    ELSE IF data \in DOMAIN m /\ m[data].st = "live" /\ len <= Len(m[data].data)
    THEN [v |-> SubSeq(m[data].data, 1, len), ub |-> {}]
    ELSE [v |-> <<>>, ub |-> {"invalid_read"}]

\* Adoption that takes the buffer over, as a Box, and frees it.
LineStringFromExternal_owning(m, arr) ==
    LET sl == SliceFromRawParts(m, arr.data, arr.len)
        r == DropBoxFromRaw(m, arr.data, arr.len)
    IN  [ls |-> LineStringFromVec(sl.v), mem |-> r.mem, ub |-> sl.ub]

\* Adoption that swaps the components of each pair.
LineStringFromExternal_swapped(m, arr) ==
    LET sl == SliceFromRawParts(m, arr.data, arr.len)
    IN  [ls |-> [i \in 1..Len(sl.v) |-> Coord(sl.v[i][2], sl.v[i][1])],
         mem |-> m, ub |-> sl.ub]

\* impl From<ExternalArray> for LineString<f64>: copies the pairs out of the
\* caller's buffer; ExternalArray has no Drop, so nothing is freed.
LineStringFromExternal(m, arr) ==
    LET sl == SliceFromRawParts(m, arr.data, arr.len)
    IN  [ls |-> LineStringFromVec(sl.v), mem |-> m, ub |-> sl.ub]

\* fn string_from_arr; invoked counts the calls of the external encode.
string_from_arr(enc, m, incoming, precision) ==
    LET inc == LineStringFromExternal(m, incoming)
    IN  IF get_precision(precision).some
        THEN [text |-> encode_coordinates(enc, inc.ls, precision).v,
              invoked |-> 1, mem |-> inc.mem, ub |-> inc.ub]
        ELSE [text |-> BadPrecisionMsg, invoked |-> 0, mem |-> inc.mem, ub |-> inc.ub]

FreeStr == [st |-> "free", bytes |-> <<>>]

\* CString::new(s): fails when s holds a zero byte; the string is stored
\* with its terminating zero.
CString_new(s) == IF HasNul(s) THEN Err(<<>>) ELSE Ok(s \o <<0>>)

\* The text a C caller reads at p: the bytes before the first zero.
CStrAt(cs, p) ==
    LET b == cs[p].bytes
        z == CHOOSE i \in 1..Len(b) : b[i] = 0 /\ \A j \in 1..(i - 1) : b[j] # 0
    IN  SubSeq(b, 1, z - 1)

\* extern "C" fn encode_coordinates_ffi; p is the address the allocator
\* picks for the string.
encode_coordinates_ffi(enc, m, cs, p, coords, precision) ==
    LET s == string_from_arr(enc, m, coords, precision)
        c == CString_new(s.text)
        raw == IF c.ok THEN c.v ELSE CString_new(FallbackMsg).v
    IN  [mem |-> s.mem, cstrings |-> [cs EXCEPT ![p] = [st |-> "live", bytes |-> raw]],
         ptr |-> p, text |-> s.text, invoked |-> s.invoked, ub |-> s.ub]

\* extern "C" fn drop_cstring: drop(CString::from_raw(p))
drop_cstring(cs, p) ==
    IF p \in DOMAIN cs /\ cs[p].st = "live"
    THEN [cstrings |-> [cs EXCEPT ![p] = FreeStr], ub |-> {}]
    ELSE [cstrings |-> cs, ub |-> {"invalid_free"}]

---------------------------------------------------------------------------
(* State machine *)

NoCall ==
    [op |-> "none", pl |-> <<>>, precision |-> 0, arr |-> NullArray,
     coords |-> NullArray, text |-> <<>>, ptr |-> NULL, invoked |-> 0, frees |-> 0,
     ev |-> {}]

\* Nothing allocated, nothing held; E holds the external encoders linked.
InitWith(E) ==
    /\ mem = [a \in NativeAddr \cup CallerAddr |-> FreeBlock]
    /\ cstrings = [a \in StrAddr |-> FreeStr]
    /\ held = <<>>
    /\ ub = {}
    /\ status = "running"
    /\ extEncoder \in E
    /\ last = NoCall

Init == InitWith(ExtEncoders)

\* The array side never calls the external encode.
InitArrays == InitWith({"polyline"})

Remove(seq, i) == SubSeq(seq, 1, i - 1) \o SubSeq(seq, i + 1, Len(seq))

\* A step that raised undefined behaviour either aborts or carries on.
Outcomes(ev) == IF ev = {} THEN {"running"} ELSE {"running", "aborted"}

\* The caller calls decode_polyline_ffi and keeps the descriptor returned.
DecodePolylineFfi(pl, precision, a) ==
    /\ status = "running"
    /\ Len(held) < MaxHeld
    /\ a \in Free(mem, NativeAddr)
    /\ LET r == decode_polyline_ffi(mem, a, pl, precision)
       IN  /\ mem' = r.mem
           /\ held' = Append(held, r.arr)
           /\ last' = [NoCall EXCEPT !.op = "decode_polyline_ffi", !.pl = pl,
                                     !.precision = precision, !.arr = r.arr]
    /\ UNCHANGED <<cstrings, ub, status, extEncoder>>

\* extern "C" fn drop_float_array(_: InternalArray) {}: the argument is
\* dropped when the function returns.  The caller gives up held[i].
DropFloatArray(i) ==
    /\ status = "running"
    /\ i \in 1..Len(held)
    /\ LET r == InternalArray_drop(mem, held[i])
       IN  /\ status' \in Outcomes(r.ub)
           /\ ub' = ub \cup r.ub
           /\ mem' = IF status' = "aborted" THEN mem ELSE r.mem
           /\ last' = [NoCall EXCEPT !.op = "drop_float_array", !.arr = held[i],
                                     !.ev = r.ub]
    /\ held' = Remove(held, i)
    /\ UNCHANGED <<cstrings, extEncoder>>

\* The caller zeroes the address of a descriptor it holds
\* (arr.data = ptr::null_mut() in test_drop_empty_float_array).
ZeroData(i) ==
    /\ status = "running"
    /\ i \in 1..Len(held)
    /\ held[i].data # NULL
    /\ held' = [held EXCEPT ![i].data = NULL]
    /\ last' = [NoCall EXCEPT !.op = "zero_data", !.arr = held[i]]
    /\ UNCHANGED <<mem, cstrings, ub, status, extEncoder>>

\* In-process use of From<LineString<T>> for InternalArray.
ExportLineString(T, v, a) ==
    /\ status = "running"
    /\ Len(held) < MaxHeld
    /\ a \in Free(mem, NativeAddr)
    /\ LET r == InternalArrayFromLineString(mem, a, T, LineStringFromVec(v))
       IN  /\ mem' = r.mem
           /\ held' = Append(held, r.arr)
           /\ last' = [NoCall EXCEPT !.op = "export_linestring", !.arr = r.arr]
    /\ UNCHANGED <<cstrings, ub, status, extEncoder>>

\* In-process use of From<InternalArray> for LineString<f64>, on a
\* descriptor that is valid for reads of len pairs of f64.
ConvertInternalArray(i) ==
    /\ status = "running"
    /\ i \in 1..Len(held)
    /\ held[i].data # NULL
    /\ IF held[i].len = 0 THEN TRUE
       ELSE /\ mem[held[i].data].st = "live"
            /\ mem[held[i].data].size = SliceLayout("f64", held[i].len).size
    /\ LET r == LineStringFromInternalArray(mem, held[i])
       IN  /\ status' \in Outcomes(r.ub)
           /\ ub' = ub \cup r.ub
           /\ mem' = r.mem
           /\ last' = [NoCall EXCEPT !.op = "into_linestring", !.arr = held[i],
                                     !.ev = r.ub, !.frees = r.frees]
    /\ held' = Remove(held, i)
    /\ UNCHANGED <<cstrings, extEncoder>>

\* The caller builds a buffer of its own.
CallerAlloc(v, c) ==
    /\ status = "running"
    /\ c \in Free(mem, CallerAddr)
    /\ LET r == ExternalArrayFromVec(mem, c, v)
       IN  /\ mem' = r.mem
           /\ last' = [NoCall EXCEPT !.op = "caller_alloc"]
    /\ UNCHANGED <<cstrings, held, ub, status, extEncoder>>

\* The caller frees a buffer of its own.
CallerFree(c) ==
    /\ status = "running"
    /\ c \in Live(mem, CallerAddr)
    /\ mem' = [mem EXCEPT ![c] = FreeBlock]
    /\ last' = [NoCall EXCEPT !.op = "caller_free"]
    /\ UNCHANGED <<cstrings, held, ub, status, extEncoder>>

\* The caller calls encode_coordinates_ffi.  When the call aborts, nothing
\* is returned.
EncodeCoordinatesFfi(coords, precision, p) ==
    /\ status = "running"
    /\ coords \in ExternalArrays(mem)
    /\ p \in Free(cstrings, StrAddr)
    /\ LET r == encode_coordinates_ffi(extEncoder, mem, cstrings, p, coords, precision)
       IN  /\ status' \in Outcomes(r.ub)
           /\ ub' = ub \cup r.ub
           /\ mem' = r.mem
           /\ cstrings' = IF status' = "aborted" THEN cstrings ELSE r.cstrings
           /\ last' = [NoCall EXCEPT !.op = "encode_coordinates_ffi",
                                     !.coords = coords, !.precision = precision,
                                     !.text = r.text, !.invoked = r.invoked,
                                     !.ptr = IF status' = "aborted" THEN NULL ELSE r.ptr,
                                     !.ev = r.ub]
    /\ UNCHANGED <<held, extEncoder>>

\* The caller releases a string it was given.
DropCString(p) ==
    /\ status = "running"
    /\ p \in Live(cstrings, StrAddr)
    /\ LET r == drop_cstring(cstrings, p)
       IN  /\ cstrings' = r.cstrings
           /\ ub' = ub \cup r.ub
           /\ status' \in Outcomes(r.ub)
           /\ last' = [NoCall EXCEPT !.op = "drop_cstring", !.ev = r.ub]
    /\ UNCHANGED <<mem, held, extEncoder>>

\* decode and release, each descriptor released once
NextDecode ==
    \/ \E pl \in SampleStrings, precision \in PrecisionInputs, a \in NativeAddr :
           DecodePolylineFfi(pl, precision, a)
    \/ \E i \in 1..MaxHeld : DropFloatArray(i)

\* decode and release, with a caller that zeroes addresses
NextZeroed ==
    \/ NextDecode
    \/ \E i \in 1..MaxHeld : ZeroData(i)

\* encode and release of strings
NextEncode ==
    \/ \E v \in SampleLines, c \in CallerAddr : CallerAlloc(v, c)
    \/ \E c \in CallerAddr : CallerFree(c)
    \/ \E coords \in ExternalArrays(mem), precision \in PrecisionInputs, p \in StrAddr :
           EncodeCoordinatesFfi(coords, precision, p)
    \/ \E p \in StrAddr : DropCString(p)

\* the conversions used in-process
NextConversions ==
    \/ \E T \in FloatTypes, v \in SampleLines, a \in NativeAddr : ExportLineString(T, v, a)
    \/ \E i \in 1..MaxHeld : ConvertInternalArray(i)
    \/ \E i \in 1..MaxHeld : DropFloatArray(i)

\* Every operation.  The three sides share no block: each claim is checked
\* under the specification of the side it is about.
Next == NextZeroed \/ NextEncode \/ NextConversions

Spec == Init /\ [][Next]_vars
SpecDecode == InitArrays /\ [][NextDecode]_vars
SpecZeroed == InitArrays /\ [][NextZeroed]_vars
SpecEncode == Init /\ [][NextEncode]_vars
SpecConversions == InitArrays /\ [][NextConversions]_vars

---------------------------------------------------------------------------
(* Claims *)

DecodeCall == last.op = "decode_polyline_ffi"
EncodeCall == last.op = "encode_coordinates_ffi"

\* The pairs an ExternalArray or InternalArray descriptor designates.
PairsAt(arr) == IF arr.len = 0 THEN <<>> ELSE SubSeq(mem[arr.data].data, 1, arr.len)

\* C1: in each failure case of decode_polyline_ffi (bytes that are not
\* UTF-8, a precision other than 5 and 6, an error of the external decode)
\* the call returns, without fault, a native-owned array of len 1 at a
\* non-null address whose single pair is (NaN, NaN).
C1_DecodeFailureIsNanSentinel ==
    (/\ DecodeCall
     /\ \/ ~Utf8ValidFrom(last.pl, 1)
        \/ last.precision \notin {5, 6}
        \/ ~decode_polyline(last.pl, last.precision).ok)
    => /\ status = "running"
       /\ ub = {}
       /\ last.arr.len = 1
       /\ last.arr.data # NULL
       /\ last.arr.data \in NativeAddr
       /\ mem[last.arr.data].st = "live"
       /\ mem[last.arr.data].owner = "native"
       /\ Len(mem[last.arr.data].data) = 1
       /\ is_nan(mem[last.arr.data].data[1][1])
       /\ is_nan(mem[last.arr.data].data[1][2])
       /\ held[Len(held)] = last.arr

\* C1 witness: a text that is valid UTF-8 but not a polyline, decoded with
\* precision 5, came back as the sentinel.
C1_Witness ==
    /\ DecodeCall
    /\ last.pl = <<195, 169>>
    /\ last.precision = 5
    /\ last.arr.len = 1
    /\ is_nan(mem[last.arr.data].data[1][1])

\* The three failure cases of C1 each occur.
C1_CaseBadUtf8 == DecodeCall /\ ~Utf8ValidFrom(last.pl, 1) /\ last.precision = 5
C1_CaseBadPrecision ==
    DecodeCall /\ last.precision = 7 /\ decode_polyline(last.pl, 7).ok /\ Len(last.pl) = 4
C1_CaseOk == DecodeCall /\ last.precision = 5 /\ last.arr.len = 2

\* C3: when each descriptor returned by decode_polyline_ffi is passed to
\* drop_float_array once, the live native blocks are exactly the blocks of
\* the descriptors still held, one block per descriptor, no deallocation
\* hits a block that is not live, and nothing is live once every
\* descriptor has been released.
C3_ReleasedExactlyOnceNoLeak ==
    /\ status = "running"
    /\ ub = {}
    /\ \A a \in NativeAddr :
           mem[a].st = "live" <=>
               \E i \in 1..Len(held) : held[i].len > 0 /\ held[i].data = a
    /\ \A i, j \in 1..Len(held) :
           (i # j /\ held[i].len > 0 /\ held[j].len > 0) => held[i].data # held[j].data
    /\ \A i \in 1..Len(held) : held[i].data # NULL
    /\ (held = <<>> => Live(mem, NativeAddr) = {})

\* C3 witness: the caller held two buffers at once, and the second has
\* now been released after the first: nothing is held and nothing is live.
C3_Witness ==
    /\ held = <<>>
    /\ last.op = "drop_float_array"
    /\ last.arr.len >= 1
    /\ last.arr.data = 32
    /\ Live(mem, NativeAddr) = {}

\* C3, the empty sequence: an array exported from the empty sequence was
\* released.
C3_EmptyReleased ==
    held = <<>> /\ last.op = "drop_float_array" /\ last.arr.len = 0
    /\ last.arr.data # NULL

\* C4: drop_float_array on a descriptor whose address is null, whatever its
\* len, changes no block, raises no fault and leaves the process running.
C4_NullReleaseIsNoOp ==
    [][\A i \in 1..MaxHeld :
           (i <= Len(held) /\ held[i].data = NULL /\ DropFloatArray(i))
           => /\ mem' = mem
              /\ cstrings' = cstrings
              /\ ub' = ub
              /\ status' = "running"]_vars

\* C4 witness: a descriptor of len 2 whose address was zeroed has been
\* released, and the block it pointed to is still live.
C4_Witness ==
    /\ last.op = "drop_float_array"
    /\ last.arr.data = NULL
    /\ last.arr.len = 2
    /\ \E a \in NativeAddr :
           /\ mem[a].st = "live"
           /\ Len(mem[a].data) = 2
           /\ \A i \in 1..Len(held) : held[i].data # a

\* The sequence the external encode should be given for a descriptor: the
\* caller's pairs, in order, first component x and second y.
PairsAsLineString(arr) ==
    LET v == PairsAt(arr) IN [i \in 1..Len(v) |-> [x |-> v[i][1], y |-> v[i][2]]]

C5_EncodeOnlyBorrows ==
    [][(last'.op \in {"encode_coordinates_ffi", "drop_cstring"})
       => /\ \A c \in CallerAddr : mem'[c] = mem[c]
          /\ \A i \in 1..Len(held') : held'[i].data \notin CallerAddr
          /\ last'.ptr \notin CallerAddr]_vars

\* C5 witness: an encode call on a caller buffer of two pairs has returned
\* and the buffer is live.
C5_Witness ==
    /\ EncodeCall
    /\ status = "running"
    /\ last.ptr # NULL
    /\ last.coords.data \in CallerAddr
    /\ last.coords.len = 2
    /\ mem[last.coords.data].st = "live"
    /\ mem[last.coords.data].owner = "caller"
    /\ Len(mem[last.coords.data].data) = 2

\* C6: every encode call returns, without fault, a non-null pointer to a
\* live native string; the string reads as the fallback message when the
\* text produced holds a zero byte and as the text otherwise.
C6_AlwaysReleasableString ==
    EncodeCall
    => /\ status = "running"
       /\ last.ptr # NULL
       /\ last.ptr \in StrAddr
       /\ cstrings[last.ptr].st = "live"
       /\ CStrAt(cstrings, last.ptr)
              = (IF HasNul(last.text) THEN FallbackMsg ELSE last.text)

\* C6, the calls that return: what C6 says of the string holds of them.
C6_OnReturn ==
    (EncodeCall /\ status = "running")
    => /\ last.ptr \in StrAddr
       /\ cstrings[last.ptr].st = "live"
       /\ CStrAt(cstrings, last.ptr)
              = (IF HasNul(last.text) THEN FallbackMsg ELSE last.text)

\* C6, the fallback: a text holding a zero byte was replaced.
C6_FallbackReached ==
    EncodeCall /\ HasNul(last.text) /\ last.ptr # NULL
    /\ CStrAt(cstrings, last.ptr) = FallbackMsg

C8_ErrorReached ==
    EncodeCall /\ last.precision = 6 /\ last.text = LatitudeErrorPrefix \o <<49>>

\* C9: an encode call on a descriptor of len 0 completes, whatever the
\* address, and returns a string.
C9_EmptyNeedsNoAddress ==
    (EncodeCall /\ last.coords.len = 0)
    => /\ status = "running"
       /\ last.ptr # NULL

\* C9: with a dangling, non-null address the call on len 0 does complete.
C9_DanglingCompletes ==
    (EncodeCall /\ last.coords.len = 0 /\ last.coords.data # NULL)
    => /\ status = "running"
       /\ last.ev = {}
       /\ last.ptr # NULL

\* C7: every array exported by From<LineString<T>> or From<Vec<[f64; 2]>>
\* sits in a block allocated with the layout its release deallocates with,
\* len pairs of two 64-bit floats.
C7_ExportLayoutIsReleaseLayout ==
    \A i \in 1..Len(held) :
        (held[i].data # NULL /\ held[i].len > 0)
        => /\ mem[held[i].data].size = SliceLayout("f64", held[i].len).size
           /\ mem[held[i].data].align = SliceLayout("f64", held[i].len).align

\* C10: converting a native array of len >= 1 at a non-null address back
\* into a LineString deallocates its storage exactly once.
C10_ConversionFreesOnce ==
    (last.op = "into_linestring" /\ last.arr.data # NULL /\ last.arr.len >= 1)
    => /\ last.frees = 1
       /\ "double_free" \notin last.ev

==========================================================================
